---- MODULE Spec2Model ----
(***************************************************************************)
(* A model of w3storage/__init__.py: the API client of web3.storage.       *)
(* The state is the client object (self._url, self._auth) together with    *)
(* the record of the last call made on it: the operation and its           *)
(* arguments, the HTTP requests it issued, the response the service gave   *)
(* and the value it returned or the exception it raised.  Each public      *)
(* method, and each of the helpers _head/_get/_post, is one action.        *)
(***************************************************************************)
EXTENDS Integers, Sequences, FiniteSets, TLC

VARIABLES self, ctor, call, sent, resp, result

vars == <<self, ctor, call, sent, resp, result>>

(***************************************************************************)
(* Python values.  Every value has the same shape so that values of        *)
(* different Python types can be compared: t is the type, s the text of a  *)
(* str or bytes, n the number of an int, j the items of a decoded JSON     *)
(* object (a sequence of <<key, value>> pairs, in document order) or       *)
(* array.                                                                  *)
(***************************************************************************)
PyNone == [t |-> "NoneType", s |-> "", n |-> 0, j |-> <<>>]

PyStr(s) == [t |-> "str", s |-> s, n |-> 0, j |-> <<>>]

PyBytes(s) == [t |-> "bytes", s |-> s, n |-> 0, j |-> <<>>]

PyInt(n) == [t |-> "int", s |-> "", n |-> n, j |-> <<>>]

PyDict(pairs) == [t |-> "dict", s |-> "", n |-> 0, j |-> pairs]

PyList(items) == [t |-> "list", s |-> "", n |-> 0, j |-> items]

\* An exception object passed around as a value (http_exception).
PyExc(cls) == [t |-> cls, s |-> "", n |-> 0, j |-> <<>>]

(***************************************************************************)
(* The outcome of evaluating an expression or a call: a value returned, a  *)
(* response object returned (_request), or an exception raised with its    *)
(* args.                                                                   *)
(***************************************************************************)
NoResponse == [status_code |-> 0, content |-> "", headers |-> {}]

Return(v) == [kind |-> "return", value |-> v, exc |-> "", args |-> <<>>]

Raise(cls, args) == [kind |-> "raise", value |-> PyNone, exc |-> cls, args |-> args]

NoResult == [kind |-> "none", value |-> PyNone, exc |-> "", args |-> <<>>]

(***************************************************************************)
(* HTTP headers: a set of <<name, value>> pairs whose names compare        *)
(* without regard to case (requests.structures.CaseInsensitiveDict).       *)
(***************************************************************************)
Lower(name) ==
    CASE name = "Authorization" -> "authorization"
      [] name = "X-NAME" -> "x-name"
      [] name = "Content-Length" -> "content-length"
      [] OTHER -> name

SetHeader(headers, name, value) ==
    {p \in headers : Lower(p[1]) /= Lower(name)} \cup {<<name, value>>}

HeaderValues(headers, name) ==
    {p[2] : p \in {q \in headers : Lower(q[1]) = Lower(name)}}

(***************************************************************************)
(* Authentication objects.  self._auth is None or a _BearerAuth; a caller  *)
(* of _head/_get/_post may pass another in auth=.                          *)
(***************************************************************************)
AuthNone == [kind |-> "None", key |-> ""]

_BearerAuth(key) == [kind |-> "_BearerAuth", key |-> key]

HTTPBasicAuth(key) == [kind |-> "HTTPBasicAuth", key |-> key]

\* _BearerAuth.__call__: r.headers['authorization'] = 'Bearer ' + self.key
_BearerAuth__call__(auth, headers) ==
    SetHeader(headers, "authorization", "Bearer " \o auth.key)

\* What requests does with the auth= it is given: it calls it on the
\* prepared request; None leaves the headers alone.
ApplyAuth(auth, headers) ==
    CASE auth.kind = "_BearerAuth" -> _BearerAuth__call__(auth, headers)
      [] auth.kind = "HTTPBasicAuth" ->
             SetHeader(headers, "Authorization", "Basic " \o auth.key)
      [] OTHER -> headers

(***************************************************************************)
(* API.__init__                                                            *)
(***************************************************************************)
API__init__(token, url) ==
    [_url |-> url,
     _auth |-> IF token /= PyNone THEN _BearerAuth(token.s) ELSE AuthNone]

(***************************************************************************)
(* The response object of requests: status_code, the body (content) and    *)
(* the headers.  r.content is the body as bytes, r.text the body decoded   *)
(* to str, r.json() the body parsed as JSON.                               *)
(***************************************************************************)
response_content(r) == PyBytes(r.content)

response_text(r) == PyStr(r.content)

\* json.loads on the bodies the service is modelled to send.
Json(text) ==
    CASE text = "{\"cid\":\"bafy123\",\"created\":\"2021-03-12T17:03:07.787Z\"}" ->
             Return(PyDict(<< <<"cid", "bafy123">>,
                              <<"created", "2021-03-12T17:03:07.787Z">> >>))
      [] text = "{\"name\":\"HTTP Error\",\"message\":\"no such cid\"}" ->
             Return(PyDict(<< <<"name", "HTTP Error">>,
                              <<"message", "no such cid">> >>))
      [] text = "{\"name\":\"HTTP Error\"}" ->
             Return(PyDict(<< <<"name", "HTTP Error">> >>))
      [] text = "[]" -> Return(PyList(<<>>))
      [] OTHER -> Raise("JSONDecodeError", <<>>)

response_json(r) == Json(r.content)

\* value[key] on a decoded JSON value: KeyError on a dict without the key,
\* TypeError on anything that is not a dict.
GetItem(value, key) ==
    IF value.t = "dict"
    THEN IF \E i \in 1..Len(value.j) : value.j[i][1] = key
         THEN Return(PyStr(value.j[CHOOSE i \in 1..Len(value.j) :
                                       value.j[i][1] = key][2]))
         ELSE Raise("KeyError", <<PyStr(key)>>)
    ELSE Raise("TypeError", <<>>)

\* raise_for_status raising for the client errors only.
raise_for_status_4xx(r) ==
    IF r.status_code >= 400 /\ r.status_code < 500
    THEN Raise("HTTPError", <<>>)
    ELSE Return(PyNone)

\* Response.raise_for_status(): HTTPError for 400 <= status < 600.
raise_for_status(r) ==
    IF r.status_code >= 400 /\ r.status_code < 600
    THEN Raise("HTTPError", <<>>)
    ELSE Return(PyNone)

\* W3Exception that takes the fields of any body that has a name.
W3Exception_name_only(response, params) ==
    LET json == response_json(response)
        name == IF json.kind = "return" THEN GetItem(json.value, "name") ELSE json
        message == IF json.kind = "return" THEN GetItem(json.value, "message") ELSE json
    IN  IF name.kind = "return"
        THEN <<name.value, message.value>> \o params
        ELSE <<response_text(response)>> \o params

(***************************************************************************)
(* W3Exception.__init__(response, *params): the args of the exception.     *)
(* Any failure of response.json(), json['name'] or json['message'] falls   *)
(* to the bare except and the text of the response is used.                *)
(***************************************************************************)
W3Exception(response, params) ==
    LET json == response_json(response)
        name == IF json.kind = "return" THEN GetItem(json.value, "name") ELSE json
        message == IF json.kind = "return" THEN GetItem(json.value, "message") ELSE json
    IN  IF name.kind = "return" /\ message.kind = "return"
        THEN <<name.value, message.value>> \o params
        ELSE <<response_text(response)>> \o params

(***************************************************************************)
(* API._request                                                            *)
(***************************************************************************)
\* The keyword arguments of a call of _request.  has_auth is
\* ('auth' in kwparams); an absent headers, params, data or files is empty.
KwParams(method, has_auth, auth, headers, params, data, files) ==
    [method |-> method, has_auth |-> has_auth, auth |-> auth,
     headers |-> headers, params |-> params, data |-> data, files |-> files]

RECURSIVE Join(_, _)
\* sep.join(parts)
Join(sep, parts) ==
    IF Len(parts) = 0 THEN ""
    ELSE IF Len(parts) = 1 THEN parts[1]
    ELSE parts[1] \o sep \o Join(sep, Tail(parts))

\* params = (self._url, *params); url = '/'.join(params)
Url(slf, params) == Join("/", <<slf._url>> \o params)

\* AttachAuth without the test of ('auth' not in kwparams).
AttachAuth_always(frame) ==
    IF frame.slf._auth /= AuthNone
    THEN [frame EXCEPT !.kwparams.has_auth = TRUE,
                       !.kwparams.auth = frame.slf._auth]
    ELSE frame

\* AttachAuth keeping the caller's auth= on the client object.
AttachAuth_stores(frame) ==
    IF frame.kwparams.has_auth
    THEN [frame EXCEPT !.slf._auth = frame.kwparams.auth]
    ELSE IF frame.slf._auth /= AuthNone
         THEN [frame EXCEPT !.kwparams.has_auth = TRUE,
                            !.kwparams.auth = frame.slf._auth]
         ELSE frame

\* if self._auth is not None and 'auth' not in kwparams:
\*     kwparams['auth'] = self._auth
AttachAuth(frame) ==
    IF frame.slf._auth /= AuthNone /\ ~frame.kwparams.has_auth
    THEN [frame EXCEPT !.kwparams.has_auth = TRUE,
                       !.kwparams.auth = frame.slf._auth]
    ELSE frame

\* requests.request(url=..., **kwparams): the request put on the wire.
requests_request(url, kwparams) ==
    [method |-> kwparams.method,
     url |-> url,
     headers |-> ApplyAuth(IF kwparams.has_auth THEN kwparams.auth ELSE AuthNone,
                           kwparams.headers),
     params |-> kwparams.params,
     data |-> kwparams.data,
     files |-> kwparams.files]

\* W3ErrorClass with the server range opened at 500.
W3ErrorClass_gt500(status_code) ==
    CASE status_code = 400 -> "W3BadRequest"
      [] status_code = 401 -> "W3Unauthorized"
      [] status_code = 403 -> "W3Forbidden"
      [] status_code > 500 /\ status_code < 600 -> "W3InternalServerError"
      [] OTHER -> "W3HTTPError"

\* The if/elif chain on r.status_code, entered once raise_for_status raised.
W3ErrorClass(status_code) ==
    CASE status_code = 400 -> "W3BadRequest"
      [] status_code = 401 -> "W3Unauthorized"
      [] status_code = 403 -> "W3Forbidden"
      [] status_code >= 500 /\ status_code < 600 -> "W3InternalServerError"
      [] OTHER -> "W3HTTPError"

\* try: r.raise_for_status(); return r / except ...: raise W3...(r, ...)
\* A returned response is kind "response".
RequestOutcome(r) ==
    LET st == raise_for_status(r) IN
    IF st.kind = "return"
    THEN [kind |-> "response", value |-> PyNone, exc |-> "", args |-> <<>>]
    ELSE LET http_exception == PyExc(st.exc)
             cls == W3ErrorClass(r.status_code)
         IN  IF cls = "W3HTTPError"
             THEN Raise(cls, W3Exception(r, <<PyInt(r.status_code), http_exception>>))
             ELSE Raise(cls, W3Exception(r, <<>>))

\* _request(self, *params, **kwparams) when the service answers r: the
\* client object afterwards, the requests issued, and the outcome.
_request(slf, params, kwparams, r) ==
    LET frame == AttachAuth([slf |-> slf, kwparams |-> kwparams])
        req == requests_request(Url(frame.slf, params), frame.kwparams)
    IN  [slf |-> frame.slf, sent |-> <<req>>, r |-> r, out |-> RequestOutcome(r)]

\* A step of a public method that failed before calling _request.
Failed(slf, out) == [slf |-> slf, sent |-> <<>>, r |-> NoResponse, out |-> out]

_head(slf, params, kwparams, r) ==
    _request(slf, params, [kwparams EXCEPT !.method = "HEAD"], r)

_get(slf, params, kwparams, r) ==
    _request(slf, params, [kwparams EXCEPT !.method = "GET"], r)

_post(slf, params, kwparams, r) ==
    _request(slf, params, [kwparams EXCEPT !.method = "POST"], r)

(***************************************************************************)
(* Conversions used by the public methods.                                 *)
(***************************************************************************)
\* str(cid)
str(v) ==
    CASE v.t = "str" -> v.s
      [] v.t = "int" -> ToString(v.n)
      [] OTHER -> v.t

\* int(x): an int is itself, a str is parsed as a decimal number.
int(v) ==
    CASE v.t = "int" -> Return(v)
      [] v.t = "str" /\ v.s = "10" -> Return(PyInt(10))
      [] v.t = "str" /\ v.s = "4096" -> Return(PyInt(4096))
      [] v.t = "str" -> Raise("ValueError", <<>>)
      [] OTHER -> Raise("TypeError", <<>>)

\* A name argument: None, or a str given by its characters.
NameNone == [is_none |-> TRUE, chars |-> <<>>]

NameStr(chars) == [is_none |-> FALSE, chars |-> chars]

RECURSIVE Text(_)
\* The str made of the characters.
Text(chars) == IF Len(chars) = 0 THEN "" ELSE chars[1] \o Text(Tail(chars))

\* urllib.parse.quote: the characters never quoted.
AlwaysSafe ==
    {"a", "b", "c", "d", "e", "f", "g", "h", "i", "j", "k", "l", "m",
     "n", "o", "p", "q", "r", "s", "t", "u", "v", "w", "x", "y", "z",
     "A", "B", "C", "D", "E", "F", "G", "H", "I", "J", "K", "L", "M",
     "N", "O", "P", "Q", "R", "S", "T", "U", "V", "W", "X", "Y", "Z",
     "0", "1", "2", "3", "4", "5", "6", "7", "8", "9", "_", ".", "-", "~"}

\* '%XX' of the one-byte characters the names are drawn from.
PercentEncode(c) ==
    CASE c = " " -> "%20"
      [] c = "%" -> "%25"
      [] c = "&" -> "%26"
      [] c = "?" -> "%3F"

RECURSIVE quote(_)
\* requests.utils.quote(name), with the default safe='/'.
quote(chars) ==
    IF Len(chars) = 0 THEN ""
    ELSE (IF chars[1] \in AlwaysSafe \cup {"/"}
          THEN chars[1]
          ELSE PercentEncode(chars[1])) \o quote(Tail(chars))

\* A datetime: date, time of day, microseconds ("" when zero) and UTC
\* offset ("" when naive).
PyDatetime(date, time, micro, tz) ==
    [t |-> "datetime", s |-> "", n |-> 0, j |-> <<date, time, micro, tz>>]

\* datetime.datetime.fromtimestamp(): called without its required
\* timestamp argument.
fromtimestamp == Raise("TypeError", <<>>)

\* datetime.datetime.fromisoformat(s).  A trailing 'Z' is accepted from
\* Python 3.11 on and a ValueError before.
fromisoformat(s, py311) ==
    CASE s = "2021-03-12T17:03:07Z" ->
             IF py311
             THEN Return(PyDatetime("2021-03-12", "17:03:07", "", "+00:00"))
             ELSE Raise("ValueError", <<>>)
      [] s = "2021-03-12T17:03:07.787+00:00" ->
             Return(PyDatetime("2021-03-12", "17:03:07", "787000", "+00:00"))
      [] s = "2021-03-12" ->
             Return(PyDatetime("2021-03-12", "00:00:00", "", ""))
      [] OTHER -> Raise("ValueError", <<>>)

\* datetime.isoformat()
isoformat(dt) ==
    dt.j[1] \o "T" \o dt.j[2]
      \o (IF dt.j[3] = "" THEN "" ELSE "." \o dt.j[3]) \o dt.j[4]

\* r['Content-Length'] on a requests.Response, which defines no
\* __getitem__: TypeError, 'Response' object is not subscriptable.
ResponseGetItem(r, key) == Raise("TypeError", <<>>)

(***************************************************************************)
(* The public methods.  Each gives the client object afterwards (slf),     *)
(* the requests issued (sent), the response received (r) and the outcome   *)
(* (out), when the service answers the request with r.                     *)
(***************************************************************************)
NoKw == KwParams("", FALSE, AuthNone, {}, {}, "", <<>>)

\* post_car_headers sending the name as given.
post_car_headers_raw(name) ==
    IF ~name.is_none THEN SetHeader({}, "X-NAME", Text(name.chars)) ELSE {}

\* headers = {}; if name is not None: headers['X-NAME'] = quote(name)
post_car_headers(name) ==
    IF ~name.is_none THEN SetHeader({}, "X-NAME", quote(name.chars)) ELSE {}

\* JsonCid giving the whole decoded body.
JsonCid_whole(r) == response_json(r)

\* r.json()['cid']
JsonCid(r) ==
    LET json == response_json(r) IN
    IF json.kind = "return" THEN GetItem(json.value, "cid") ELSE json

post_car(slf, car_, name, r) ==
    LET headers == post_car_headers(name)
        q == _post(slf, <<"upload">>,
                   [NoKw EXCEPT !.data = car_, !.headers = headers], r)
    IN  IF q.out.kind = "response" THEN [q EXCEPT !.out = JsonCid(q.r)] ELSE q

car(slf, cid, r) ==
    LET q == _get(slf, <<"car", str(cid)>>, NoKw, r) IN
    IF q.out.kind = "response"
    THEN [q EXCEPT !.out = Return(response_content(q.r))]
    ELSE q

head_car(slf, cid, r) ==
    LET q == _head(slf, <<"car", str(cid)>>, NoKw, r)
        length == ResponseGetItem(q.r, "Content-Length")
    IN  IF q.out.kind = "response"
        THEN [q EXCEPT !.out = IF length.kind = "return"
                                THEN int(length.value)
                                ELSE length]
        ELSE q

status(slf, cid, r) ==
    LET q == _get(slf, <<"status", str(cid)>>, NoKw, r) IN
    IF q.out.kind = "response" THEN [q EXCEPT !.out = response_json(q.r)] ELSE q

\* files=[('file', file) for file in files]
post_upload_files(files) == [i \in 1..Len(files) |-> <<"file", files[i]>>]

post_upload(slf, files, r) ==
    LET q == _post(slf, <<"upload">>,
                   [NoKw EXCEPT !.files = post_upload_files(files)], r)
    IN  IF q.out.kind = "response" THEN [q EXCEPT !.out = JsonCid(q.r)] ELSE q

\* The conversion of before: the outcome is the str put in params.
user_uploads_before(before, py311) ==
    LET parsed == IF before.t = "int" THEN fromtimestamp
                  ELSE IF before.t = "str" THEN fromisoformat(before.s, py311)
                  ELSE Return(before)
    IN  IF parsed.kind = "return"
        THEN Return(PyStr(isoformat(parsed.value)))
        ELSE parsed

user_uploads(slf, before, size, py311, r) ==
    LET b == IF before /= PyNone THEN user_uploads_before(before, py311)
             ELSE Return(PyNone)
        z == IF size /= PyNone THEN int(size) ELSE Return(PyNone)
        params == (IF before /= PyNone THEN {<<"before", b.value>>} ELSE {})
                    \cup (IF size /= PyNone THEN {<<"size", z.value>>} ELSE {})
        q == _get(slf, <<"user", "uploads">>, [NoKw EXCEPT !.params = params], r)
    IN  IF b.kind = "raise" THEN Failed(slf, b)
        ELSE IF z.kind = "raise" THEN Failed(slf, z)
        ELSE IF q.out.kind = "response"
             THEN [q EXCEPT !.out = response_json(q.r)]
             ELSE q

(***************************************************************************)
(* The inputs: what the caller passes and what the service answers.        *)
(***************************************************************************)
MaxFiles == 2

Urls == {"https://api.web3.storage", "http://localhost:8787"}

Tokens == {PyNone, PyStr(""), PyStr("secret")}

Cids == {PyStr("bafy123"), PyInt(42)}

Names ==
    {NameNone, NameStr(<<>>),
     NameStr(<<"m", "y", " ", "f", "i", "l", "e", ".", "c", "a", "r">>),
     NameStr(<<"a", "/", "b", "?", "5", "0", "%">>)}

Cars == {"CARv1"}

FileLists == UNION {[1..k -> {"hello"}] : k \in 0..MaxFiles}

Befores ==
    {PyNone, PyInt(1615568587), PyStr("2021-03-12T17:03:07Z"),
     PyStr("2021-03-12T17:03:07.787+00:00"), PyStr("2021-03-12"),
     PyStr("yesterday")}

Sizes == {PyNone, PyInt(10)}

\* The auth= of a direct call of _head/_get/_post: absent, None, or an
\* authentication object of the caller's.
Overrides ==
    {[has_auth |-> FALSE, auth |-> AuthNone],
     [has_auth |-> TRUE, auth |-> AuthNone],
     [has_auth |-> TRUE, auth |-> HTTPBasicAuth("dXNlcjpwdw==")],
     [has_auth |-> TRUE, auth |-> _BearerAuth("other")]}

Statuses == {199, 200, 299, 300, 400, 401, 403, 418, 500, 599, 600}

Bodies ==
    {"{\"cid\":\"bafy123\",\"created\":\"2021-03-12T17:03:07.787Z\"}",
     "{\"name\":\"HTTP Error\",\"message\":\"no such cid\"}",
     "{\"name\":\"HTTP Error\"}",
     "[]"}

Responses ==
    {[status_code |-> c, content |-> "Service Unavailable", headers |-> {}] :
        c \in Statuses}
    \cup {[status_code |-> c, content |-> b, headers |-> {}] :
            c \in {200, 418}, b \in Bodies}
    \cup {[status_code |-> 400,
            content |-> "{\"name\":\"HTTP Error\",\"message\":\"no such cid\"}",
            headers |-> {}]}
    \cup {[status_code |-> c, content |-> "", headers |-> {<<"Content-Length", l>>}] :
            c \in {200}, l \in {"4096", "abc"}}

(***************************************************************************)
(* The state machine.                                                      *)
(***************************************************************************)
NoCall ==
    [op |-> "", cid |-> PyNone, name |-> NameNone, data |-> "", files |-> <<>>,
     before |-> PyNone, size |-> PyNone, py311 |-> FALSE,
     has_auth |-> FALSE, auth |-> AuthNone]

Init ==
    /\ ctor \in [token : Tokens, url : Urls]
    /\ self = API__init__(ctor.token, ctor.url)
    /\ call = NoCall
    /\ sent = <<>>
    /\ resp = NoResponse
    /\ result = NoResult

\* The call and what it did become the record of the last call.
Done(c, q) ==
    /\ self' = q.slf
    /\ call' = c
    /\ sent' = q.sent
    /\ resp' = q.r
    /\ result' = q.out
    /\ UNCHANGED ctor

Call_post_car ==
    \E d \in Cars, name \in Names, r \in Responses :
        Done([NoCall EXCEPT !.op = "post_car", !.data = d, !.name = name],
             post_car(self, d, name, r))

Call_car ==
    \E cid \in Cids, r \in Responses :
        Done([NoCall EXCEPT !.op = "car", !.cid = cid], car(self, cid, r))

Call_head_car ==
    \E cid \in Cids, r \in Responses :
        Done([NoCall EXCEPT !.op = "head_car", !.cid = cid], head_car(self, cid, r))

Call_status ==
    \E cid \in Cids, r \in Responses :
        Done([NoCall EXCEPT !.op = "status", !.cid = cid], status(self, cid, r))

Call_post_upload ==
    \E files \in FileLists, r \in Responses :
        Done([NoCall EXCEPT !.op = "post_upload", !.files = files],
             post_upload(self, files, r))

Call_user_uploads ==
    \E before \in Befores, size \in Sizes, py311 \in BOOLEAN, r \in Responses :
        Done([NoCall EXCEPT !.op = "user_uploads", !.before = before,
                            !.size = size, !.py311 = py311],
             user_uploads(self, before, size, py311, r))

\* A direct call of a helper, with or without an auth override.
Call_head ==
    \E cid \in {PyStr("bafy123")}, o \in Overrides, r \in Responses :
        Done([NoCall EXCEPT !.op = "_head", !.cid = cid,
                            !.has_auth = o.has_auth, !.auth = o.auth],
             _head(self, <<"car", str(cid)>>,
                   [NoKw EXCEPT !.has_auth = o.has_auth, !.auth = o.auth], r))

Call_get ==
    \E cid \in {PyStr("bafy123")}, o \in Overrides, r \in Responses :
        Done([NoCall EXCEPT !.op = "_get", !.cid = cid,
                            !.has_auth = o.has_auth, !.auth = o.auth],
             _get(self, <<"car", str(cid)>>,
                  [NoKw EXCEPT !.has_auth = o.has_auth, !.auth = o.auth], r))

Call_post ==
    \E d \in Cars, o \in Overrides, r \in Responses :
        Done([NoCall EXCEPT !.op = "_post", !.data = d,
                            !.has_auth = o.has_auth, !.auth = o.auth],
             _post(self, <<"upload">>,
                   [NoKw EXCEPT !.data = d,
                                !.has_auth = o.has_auth, !.auth = o.auth], r))

Next ==
    \/ Call_post_car
    \/ Call_car
    \/ Call_head_car
    \/ Call_status
    \/ Call_post_upload
    \/ Call_user_uploads
    \/ Call_head
    \/ Call_get
    \/ Call_post

Spec == Init /\ [][Next]_vars

(***************************************************************************)
(* The properties.                                                         *)
(***************************************************************************)
PublicOps == {"post_car", "car", "head_car", "status", "post_upload", "user_uploads"}

HelperOps == {"_head", "_get", "_post"}

W3Classes ==
    {"W3BadRequest", "W3Unauthorized", "W3Forbidden", "W3InternalServerError",
     "W3HTTPError"}

\* The last call issued a request and got resp for it.
Requested == Len(sent) > 0

\* The last call ended in an error raised by _request.
RaisedW3 == result.kind = "raise" /\ result.exc \in W3Classes

Raised(cls) == result.kind = "raise" /\ result.exc = cls

NameMessageBody == "{\"name\":\"HTTP Error\",\"message\":\"no such cid\"}"

CidBody == "{\"cid\":\"bafy123\",\"created\":\"2021-03-12T17:03:07.787Z\"}"

C3_BearerIffConfigured ==
    \A i \in 1..Len(sent) :
        LET hv == HeaderValues(sent[i].headers, "Authorization")
            configured == ctor.token /= PyNone
        IN  /\ (configured /\ ~call.has_auth) => hv = {"Bearer " \o ctor.token.s}
            /\ (configured /\ call.has_auth) => ("Bearer " \o ctor.token.s) \notin hv
            /\ (~configured /\ ~call.has_auth) => hv = {}
            /\ (call.has_auth /\ call.auth = AuthNone) => hv = {}

C3_Witness ==
    /\ ctor.token = PyStr("secret")
    /\ call.has_auth
    /\ call.auth = AuthNone
    /\ Requested
    /\ HeaderValues(sent[1].headers, "Authorization") = {}

\* C4: head_car on a 2xx response with a decimal Content-Length returns
\* that integer, and raises when the header is absent or not a number.
C4_Claim ==
    (call.op = "head_car" /\ Requested /\ resp.status_code \in 200..299) =>
        LET lengths == HeaderValues(resp.headers, "Content-Length") IN
        /\ lengths = {"4096"} => result = Return(PyInt(4096))
        /\ lengths \in {{}, {"abc"}} => result.kind = "raise"

\* The arguments of the last call are ones the operation accepts: a before
\* that is a str is an ISO-8601 timestamp the interpreter's fromisoformat
\* parses.
ArgumentsValid ==
    call.before.t = "str" =>
        /\ call.before.s \in {"2021-03-12T17:03:07Z",
                              "2021-03-12T17:03:07.787+00:00", "2021-03-12"}
        /\ call.before.s = "2021-03-12T17:03:07Z" => call.py311

\* C5: user_uploads sends one GET to <base>/user/uploads; a before that is
\* an int or an ISO-8601 str is sent as a str in the parameter 'before', a
\* size as an int in 'size', and an omitted argument is not sent.
C5_Claim ==
    (call.op = "user_uploads" /\ ArgumentsValid)
    =>  /\ Len(sent) = 1
        /\ sent[1].method = "GET"
        /\ sent[1].url = ctor.url \o "/user/uploads"
        /\ LET keys == {p[1] : p \in sent[1].params} IN
           /\ "before" \in keys <=> call.before /= PyNone
           /\ "size" \in keys <=> call.size /= PyNone
        /\ \A p \in sent[1].params :
              /\ p[1] = "before" => p[2].t = "str"
              /\ p[1] = "size" => p[2] = PyInt(10)
        /\ call.before = PyStr("2021-03-12T17:03:07Z") =>
              <<"before", PyStr("2021-03-12T17:03:07+00:00")>> \in sent[1].params

\* C6: the args of a raised W3 error begin with (name, message) when the
\* body is a JSON object with both fields and with the text of the body
\* otherwise; W3HTTPError alone adds the status code and the HTTPError;
\* every status in 400..599 does raise such an error.
C6_ErrorArgs ==
    Requested =>
        /\ resp.status_code \in 400..599 => RaisedW3
        /\ RaisedW3 =>
              result.args =
                  (IF resp.content = NameMessageBody
                   THEN <<PyStr("HTTP Error"), PyStr("no such cid")>>
                   ELSE <<PyStr(resp.content)>>)
                  \o (IF result.exc = "W3HTTPError"
                      THEN <<PyInt(resp.status_code), PyExc("HTTPError")>>
                      ELSE <<>>)

C6_Witness ==
    /\ Raised("W3HTTPError")
    /\ resp.content = "{\"name\":\"HTTP Error\"}"
    /\ result.args = <<PyStr("{\"name\":\"HTTP Error\"}"), PyInt(418), PyExc("HTTPError")>>

\* The method and URL of each operation's endpoint.
Endpoint(c) ==
    CASE c.op \in {"post_car", "post_upload"} ->
             [method |-> "POST", url |-> ctor.url \o "/upload"]
      [] c.op = "car" -> [method |-> "GET", url |-> ctor.url \o "/car/" \o str(c.cid)]
      [] c.op = "head_car" ->
             [method |-> "HEAD", url |-> ctor.url \o "/car/" \o str(c.cid)]
      [] c.op = "status" ->
             [method |-> "GET", url |-> ctor.url \o "/status/" \o str(c.cid)]
      [] c.op = "user_uploads" ->
             [method |-> "GET", url |-> ctor.url \o "/user/uploads"]

\* C7: every call of a public operation, on arguments it accepts, issues
\* exactly one request, with the method and URL of its endpoint.
C7_Claim ==
    (call.op \in PublicOps /\ ArgumentsValid) =>
        /\ Len(sent) = 1
        /\ sent[1].method = Endpoint(call).method
        /\ sent[1].url = Endpoint(call).url

\* The part of C7 that holds: a call of a public operation issues at most
\* one request, whatever the status of the response, and none only when
\* user_uploads raised while converting its arguments; the request has the
\* method and URL of the operation's endpoint.
C7_AtMostOneRequest ==
    call.op \in PublicOps =>
        /\ Len(sent) <= 1
        /\ Len(sent) = 0 =>
              (call.op = "user_uploads" /\ result.kind = "raise" /\ ~RaisedW3)
        /\ \A i \in 1..Len(sent) :
              /\ sent[i].method = Endpoint(call).method
              /\ sent[i].url = Endpoint(call).url

C7_OneRequestReached ==
    /\ call.op = "status"
    /\ call.cid = PyInt(42)
    /\ Len(sent) = 1
    /\ sent[1].url = "http://localhost:8787/status/42"
    /\ Raised("W3InternalServerError")

\* C8: a request carries X-NAME exactly when it is post_car's and a name
\* was given, and the value is the name percent-encoded.
C8_XName ==
    \A i \in 1..Len(sent) :
        LET hv == HeaderValues(sent[i].headers, "X-NAME") IN
        IF call.op = "post_car" /\ ~call.name.is_none
        THEN /\ Cardinality(hv) = 1
             /\ call.name.chars = <<>> => hv = {""}
             /\ call.name.chars = <<"m", "y", " ", "f", "i", "l", "e", ".", "c", "a", "r">>
                   => hv = {"my%20file.car"}
             /\ call.name.chars = <<"a", "/", "b", "?", "5", "0", "%">>
                   => hv = {"a/b%3F50%25"}
        ELSE hv = {}

C8_Witness ==
    /\ call.op = "post_car"
    /\ Requested
    /\ HeaderValues(sent[1].headers, "X-NAME") = {"my%20file.car"}

\* C9: on a 2xx response post_car and post_upload return the 'cid' field of
\* the body, car returns the bytes of the body, status and user_uploads
\* return the decoded body as it is.
C9_ReturnsContent ==
    (Requested /\ resp.status_code \in 200..299) =>
        /\ (call.op \in {"post_car", "post_upload"} /\ resp.content = CidBody)
              => result = Return(PyStr("bafy123"))
        /\ call.op = "car" => result = Return(PyBytes(resp.content))
        /\ (call.op \in {"status", "user_uploads"} /\ resp.content = CidBody)
              => result = Return(PyDict(<< <<"cid", "bafy123">>,
                                           <<"created", "2021-03-12T17:03:07.787Z">> >>))
        /\ (call.op \in {"status", "user_uploads"} /\ resp.content = "[]")
              => result = Return(PyList(<<>>))

C9_Witness ==
    /\ call.op = "post_car"
    /\ resp.status_code = 200
    /\ resp.content = CidBody
    /\ result = Return(PyStr("bafy123"))

\* C10: the client's base URL and credential are those given at
\* construction, after every call.
C10_ConfigImmutable ==
    /\ self._url = ctor.url
    /\ self._auth = (IF ctor.token = PyNone THEN AuthNone
                     ELSE [kind |-> "_BearerAuth", key |-> ctor.token.s])

C10_Witness ==
    /\ call.op = "_get"
    /\ call.has_auth
    /\ call.auth = HTTPBasicAuth("dXNlcjpwdw==")
    /\ ctor.token = PyStr("secret")
    /\ RaisedW3
    /\ self._auth = _BearerAuth("secret")

====
